---------------------------- MODULE Spec2Model ----------------------------
(***************************************************************************)
(* Partial Set Multi-Cover: the solver pipeline of solver.py (model        *)
(* construction, solve, solution extraction) and the certifier of          *)
(* tester.py (cost, covering and minimality checks).                       *)
(*                                                                         *)
(* An instance is the tuple read_instance returns.  S[j] is the LIST of    *)
(* integers of the j-th set line, in file order, so an element may occur   *)
(* more than once in it.  The instances explored name elements of          *)
(* 1..num_E only, have positive requirements, a positive threshold and     *)
(* non-negative costs.  A solution file is the sequence of its integer     *)
(* tokens <<k, cost, id_1, ..., id_n>>; its ids need not be sets of the    *)
(* instance.  An uncaught exception ends a run at pc = "raised".           *)
(***************************************************************************)
EXTENDS Integers, Sequences, FiniteSets, TLC

VARIABLES
    E, S, r, c, num_E, num_S, P,   \* what read_instance returned
    x, y, status,                  \* solver.py: the assignment GLPK left in the model
    file,                          \* the solution file solver.py wrote
    k, Costs, Sets,                \* tester.py: what read_solution returned
    flags,                         \* tester.py main: the flags assigned so far
    out,                           \* lines printed by tester.py
    pc                             \* position of the run

instance == <<E, S, r, c, num_E, num_S, P>>
vars == <<E, S, r, c, num_E, num_S, P, x, y, status, file, k, Costs, Sets, flags, out, pc>>

---------------------------------------------------------------------------
(* Bounds of the explored inputs.                                          *)

MaxReq == 2        \* requirements are drawn from 1..MaxReq
MaxSolLen == 2     \* a solution file lists at most MaxSolLen set ids

\* (num_E, num_S, longest set line) of the enumerated instance families
Shapes == {<<2, 2, 2>>, <<1, 3, 1>>}

\* the costs of the enumerated family: a set that is free, a set that is not
SetCosts == {0, 1}

SeqsUpTo(D, n) == UNION {[1..m -> D] : m \in 0..n}

Range(s) == {s[i] : i \in DOMAIN s}

\* the instance of the specification's worked scenario
Scenario ==
    [num_E |-> 3, num_S |-> 2, P |-> 2,
     r |-> <<1, 1, 1>>, c |-> <<5, 3>>, S |-> << <<1, 2>>, <<2, 3>> >>]

\* every instance of a shape: the tuples read_instance can return for it
InstancesOf(sh) ==
    {[num_E |-> sh[1], num_S |-> sh[2], P |-> p, r |-> rr, c |-> cc, S |-> ss] :
        p \in 1..sh[1],
        rr \in [1..sh[1] -> 1..MaxReq],
        cc \in [1..sh[2] -> SetCosts],
        ss \in [1..sh[2] -> SeqsUpTo(1..sh[1], sh[3])]}

Instances == UNION {InstancesOf(sh) : sh \in Shapes} \cup {Scenario}

---------------------------------------------------------------------------
(* solver.py                                                               *)

RECURSIVE SumTo(_, _)
\* sum([f[i] for i in 1..n])
SumTo(f, n) == IF n = 0 THEN 0 ELSE SumTo(f, n - 1) + f[n]

\* PSMC += sum([c[i] * x[i] for i in S])
Objective(xx) == SumTo([i \in DOMAIN S |-> c[i] * xx[i]], num_S)

\* PSMC += sum([y[i] for i in E]) >= P
Constraint1(yy) == SumTo([i \in DOMAIN E |-> yy[i]], num_E) >= P

\* Constraint2 without the requirement: ... - y[i] >= 0
Constraint2NoReq(xx, yy, i) ==
    SumTo([j \in DOMAIN S |-> IF i \in Range(S[j]) THEN xx[j] ELSE 0], num_S)
        - yy[i] >= 0

\* sum([x[j] for j in S if i in S[j]]) - y[i]*r[i] >= 0
Constraint2(xx, yy, i) ==
    SumTo([j \in DOMAIN S |-> IF i \in Range(S[j]) THEN xx[j] ELSE 0], num_S)
        - yy[i] * r[i] >= 0

\* the constraints create_Instance adds to the model
Constraints(xx, yy) ==
    /\ Constraint1(yy)
    /\ \A i \in DOMAIN E : Constraint2(xx, yy, i)

\* x and y are integer variables with lowBound 0 and upBound 1
Assignments == [DOMAIN S -> 0..1] \X [DOMAIN E -> 0..1]

FeasibleAssignments == {a \in Assignments : Constraints(a[1], a[2])}

OptimalAssignments ==
    {a \in FeasibleAssignments :
        \A b \in FeasibleAssignments : Objective(a[1]) <= Objective(b[1])}

RECURSIVE Extract(_, _, _)
\* the loop of solver.py main over x: <<k, cost>> \o sets
Extract(xx, i, acc) ==
    IF i > num_S THEN acc
    ELSE IF xx[i] = 1
         THEN Extract(xx, i + 1,
                      <<acc[1] + 1, acc[2] + c[i]>> \o SubSeq(acc, 3, Len(acc)) \o <<i>>)
         ELSE Extract(xx, i + 1, acc)

\* str(k)+" "+str(cost)+''.join([" %s" % i for i in sets])
SolutionLine(xx) == Extract(xx, 1, <<0, 0>>)

---------------------------------------------------------------------------
(* tester.py                                                               *)

\* collections.Counter(): no keys
EmptyCounter == [e \in {} |-> 0]

RECURSIVE CounterUpdate(_, _)
\* Counter.update(iterable): one more for every item of the list
CounterUpdate(cov, elems) ==
    IF elems = <<>> THEN cov
    ELSE LET e == Head(elems)
             cov1 == IF e \in DOMAIN cov
                     THEN [cov EXCEPT ![e] = @ + 1]
                     ELSE cov @@ (e :> 1)
         IN  CounterUpdate(cov1, Tail(elems))

RECURSIVE CostLoop(_, _, _)
\* for i in Sol_Set: cost += C_dict[i]      (C_dict[i] raises KeyError)
CostLoop(Sol_Set, C_dict, cost) ==
    IF Sol_Set = <<>> THEN [exc |-> "", val |-> cost]
    ELSE IF Head(Sol_Set) \notin DOMAIN C_dict THEN [exc |-> "KeyError", val |-> cost]
    ELSE CostLoop(Tail(Sol_Set), C_dict, cost + C_dict[Head(Sol_Set)])

\* verify_costs comparing with <= : a declared cost above the sum passes
verify_costs_le(Sol_Set, Sol_Costs, C_dict) ==
    LET l == CostLoop(Sol_Set, C_dict, 0)
    IN  IF l.exc # "" THEN [exc |-> l.exc, ret |-> FALSE]
        ELSE [exc |-> "", ret |-> (l.val <= Sol_Costs)]

verify_costs(Sol_Set, Sol_Costs, C_dict) ==
    LET l == CostLoop(Sol_Set, C_dict, 0)
    IN  IF l.exc # "" THEN [exc |-> l.exc, ret |-> FALSE]
        ELSE [exc |-> "", ret |-> (l.val = Sol_Costs)]

RECURSIVE CovLoop(_, _, _)
\* for i in Sol_Set: cov.update(S[i])       (S[i] raises KeyError)
CovLoop(Sol_Set, S_dict, cov) ==
    IF Sol_Set = <<>> THEN [exc |-> "", val |-> cov]
    ELSE IF Head(Sol_Set) \notin DOMAIN S_dict THEN [exc |-> "KeyError", val |-> cov]
    ELSE CovLoop(Tail(Sol_Set), S_dict, CounterUpdate(cov, S_dict[Head(Sol_Set)]))

\* Meets with > : a count equal to the requirement does not satisfy
MeetsStrict(count, requirement) == count > requirement

\* Meets with == : a count above the requirement does not satisfy
MeetsExactly(count, requirement) == count = requirement

\* if cov[i]>=Re[i]: the comparison of one counted element with its requirement
Meets(count, requirement) == count >= requirement

\* for i in cov: if cov[i]>=Re[i]: req+=1
ReqCount(cov, Re) == Cardinality({i \in DOMAIN cov : Meets(cov[i], Re[i])})

verify_covering_requirement(Re, Sol_Set, S_dict, P_thresh) ==
    LET l == CovLoop(Sol_Set, S_dict, EmptyCounter)
    IN  IF l.exc # "" THEN [exc |-> l.exc, ret |-> FALSE]
        ELSE IF \E i \in DOMAIN l.val : i \notin DOMAIN Re    \* Re[i] raises KeyError
        THEN [exc |-> "KeyError", ret |-> FALSE]
        ELSE [exc |-> "", ret |-> (ReqCount(l.val, Re) >= P_thresh)]

\* list.pop(): the list without its last entry, whatever v is
ListPop(s, v) == SubSeq(s, 1, Len(s) - 1)

\* list.remove(v): the list without the first occurrence of v
ListRemove(s, v) ==
    LET i == CHOOSE n \in DOMAIN s : s[n] = v /\ \A m \in 1..(n - 1) : s[m] # v
    IN  SubSeq(s, 1, i - 1) \o SubSeq(s, i + 1, Len(s))

RECURSIVE MinimalLoop(_, _, _, _, _)
\* for i in Sol_Set: ... if flag: return False ... return True
MinimalLoop(Re, Sol_Set, S_dict, P_thresh, n) ==
    IF n > Len(Sol_Set) THEN [exc |-> "", ret |-> TRUE]
    ELSE LET changed == ListRemove(Sol_Set, Sol_Set[n])
             flag == verify_covering_requirement(Re, changed, S_dict, P_thresh)
         IN  IF flag.exc # "" THEN flag
             ELSE IF flag.ret THEN [exc |-> "", ret |-> FALSE]
             ELSE MinimalLoop(Re, Sol_Set, S_dict, P_thresh, n + 1)

\* verify_minimal returning True after the first removal that fails
verify_minimal_first(Re, Sol_Set, S_dict, P_thresh) ==
    IF Sol_Set = <<>> THEN [exc |-> "", ret |-> TRUE]
    ELSE LET flag == verify_covering_requirement(
                         Re, ListRemove(Sol_Set, Sol_Set[1]), S_dict, P_thresh)
         IN  IF flag.exc # "" THEN flag ELSE [exc |-> "", ret |-> ~flag.ret]

verify_minimal(Re, Sol_Set, S_dict, P_thresh) ==
    MinimalLoop(Re, Sol_Set, S_dict, P_thresh, 1)

\* read_solution: k, Cost, Sets of a token sequence; "wrong format" when k # len(Sets)
read_solution(tokens) ==
    LET kk == tokens[1]
        ids == SubSeq(tokens, 3, Len(tokens))
    IN  [k |-> kk, Cost |-> tokens[2], Sets |-> ids, ok |-> (kk = Len(ids))]

---------------------------------------------------------------------------
(* The runs.                                                               *)

\* the costs of the listed ids that are sets of the instance, summed
ListedCost(ids) ==
    SumTo([i \in DOMAIN ids |-> IF ids[i] \in DOMAIN c THEN c[ids[i]] ELSE 0], Len(ids))

\* the files listing ids: a count that is the number of ids or one more, a
\* declared cost at or next to the listed sets' cost
FilesListing(ids) ==
    {<<kk, cost>> \o ids :
        kk \in {Len(ids), Len(ids) + 1},
        cost \in {d \in (ListedCost(ids) - 1)..(ListedCost(ids) + 1) : d >= 0}}

\* solution files that did not come from solver.py: up to MaxSolLen ids, each
\* a set of the instance or the first id that is none
ExternalFiles == UNION {FilesListing(ids) : ids \in SeqsUpTo(1..(num_S + 1), MaxSolLen)}

Init ==
    /\ \E I \in Instances :
        /\ num_E = I.num_E
        /\ num_S = I.num_S
        /\ P = I.P
        /\ E = [i \in 1..I.num_E |-> i]
        /\ r = I.r
        /\ c = I.c
        /\ S = I.S
    /\ x = <<>>
    /\ y = <<>>
    /\ status = "not solved"
    /\ file = <<>>
    /\ k = 0
    /\ Costs = 0
    /\ Sets = <<>>
    /\ flags = <<>>
    /\ out = <<>>
    /\ pc = "start"

\* solver.py main: create_Instance and solve_instance. GLPK leaves an optimal
\* assignment, or on its time limit a feasible one, or reports infeasibility
\* and leaves whatever values it wrote.
SolveInstance ==
    /\ pc = "start"
    /\ \E a \in Assignments :
        /\ \/ a \in OptimalAssignments /\ status' = "optimal"
           \/ a \in FeasibleAssignments /\ status' = "timeout"
           \/ FeasibleAssignments = {} /\ status' = "infeasible"
        /\ x' = a[1]
        /\ y' = a[2]
    /\ pc' = "solved"
    /\ UNCHANGED <<instance, file, k, Costs, Sets, flags, out>>

\* solver.py main: the extraction loop and the write of the solution file
WriteSolution ==
    /\ pc = "solved"
    /\ file' = SolutionLine(x)
    /\ pc' = "written"
    /\ UNCHANGED <<instance, x, y, status, k, Costs, Sets, flags, out>>

\* tester.py main up to read_solution, on the solver's file or on another one
ReadSolution ==
    /\ pc \in {"start", "written"}
    /\ \E f \in (IF pc = "written" THEN {file} ELSE ExternalFiles) :
        LET sol == read_solution(f)
        IN  IF sol.ok
            THEN /\ k' = sol.k
                 /\ Costs' = sol.Cost
                 /\ Sets' = sol.Sets
                 /\ out' = out
                 /\ pc' = "verify_costs"
            ELSE /\ out' = Append(out, "wrong format")
                 /\ pc' = "exit"
                 /\ UNCHANGED <<k, Costs, Sets>>
    /\ UNCHANGED <<instance, x, y, status, file, flags>>

\* CheckCosts without the return: it prints and goes on to the covering check
CheckCostsNoReturn ==
    /\ pc = "verify_costs"
    /\ LET res == verify_costs(Sets, Costs, c)
       IN  IF res.exc # ""
           THEN /\ pc' = "raised"
                /\ UNCHANGED <<flags, out>>
           ELSE /\ flags' = flags @@ ("cost_flag" :> res.ret)
                /\ out' = IF ~res.ret THEN Append(out, "incorrect cost") ELSE out
                /\ pc' = "verify_covering"
    /\ UNCHANGED <<instance, x, y, status, file, k, Costs, Sets>>

\* cost_flag = verify_costs(Sets,Costs,c); if not cost_flag: print, return
CheckCosts ==
    /\ pc = "verify_costs"
    /\ LET res == verify_costs(Sets, Costs, c)
       IN  IF res.exc # ""
           THEN /\ pc' = "raised"
                /\ UNCHANGED <<flags, out>>
           ELSE /\ flags' = flags @@ ("cost_flag" :> res.ret)
                /\ IF ~res.ret
                   THEN out' = Append(out, "incorrect cost") /\ pc' = "done"
                   ELSE out' = out /\ pc' = "verify_covering"
    /\ UNCHANGED <<instance, x, y, status, file, k, Costs, Sets>>

\* covering_flag = verify_covering_requirement(r,Sets,S,P); if not: print, return
CheckCovering ==
    /\ pc = "verify_covering"
    /\ LET res == verify_covering_requirement(r, Sets, S, P)
       IN  IF res.exc # ""
           THEN /\ pc' = "raised"
                /\ UNCHANGED <<flags, out>>
           ELSE /\ flags' = flags @@ ("covering_flag" :> res.ret)
                /\ IF ~res.ret
                   THEN out' = Append(out, "infeasible") /\ pc' = "done"
                   ELSE out' = out /\ pc' = "verify_minimal"
    /\ UNCHANGED <<instance, x, y, status, file, k, Costs, Sets>>

\* minimal_flag = verify_minimal(r,Sets,S,P); if not minimal_flag: print, return
CheckMinimal ==
    /\ pc = "verify_minimal"
    /\ LET res == verify_minimal(r, Sets, S, P)
       IN  IF res.exc # ""
           THEN /\ pc' = "raised"
                /\ UNCHANGED <<flags, out>>
           ELSE /\ flags' = flags @@ ("minimal_flag" :> res.ret)
                /\ IF ~res.ret
                   THEN out' = Append(out, "not minimal") /\ pc' = "done"
                   ELSE out' = out /\ pc' = "report"
    /\ UNCHANGED <<instance, x, y, status, file, k, Costs, Sets>>

\* if cost_flag and covering_flag and minimal_flag: print("everything is correct!")
Report ==
    /\ pc = "report"
    /\ IF flags["cost_flag"] /\ flags["covering_flag"] /\ flags["minimal_flag"]
       THEN out' = Append(out, "everything is correct!")
       ELSE out' = out
    /\ pc' = "done"
    /\ UNCHANGED <<instance, x, y, status, file, k, Costs, Sets, flags>>

Next ==
    \/ SolveInstance
    \/ WriteSolution
    \/ ReadSolution
    \/ CheckCosts
    \/ CheckCovering
    \/ CheckMinimal
    \/ Report

Spec == Init /\ [][Next]_vars

---------------------------------------------------------------------------
(* What the claims speak of, stated without the certifier's loops.         *)

\* every listed id is a set of the instance
ValidIds(ids) == \A i \in DOMAIN ids : ids[i] \in 1..num_S

\* the sum of cost[j] over the entries j of the list
TrueCost(ids) ==
    SumTo([j \in 1..num_S |-> c[j] * Cardinality({i \in DOMAIN ids : ids[i] = j})], num_S)

\* coverage count: the number of entries of the list whose set contains e
EntriesContaining(ids, e) == Cardinality({i \in DOMAIN ids : e \in Range(S[ids[i]])})

\* the elements of 1..num_E whose coverage count meets their requirement
SatisfiedElements(ids) == {e \in 1..num_E : EntriesContaining(ids, e) >= r[e]}

\* the list without its n-th entry
RemoveAt(s, n) == SubSeq(s, 1, n - 1) \o SubSeq(s, n + 1, Len(s))

RECURSIVE Perms(_)
\* every reordering of the list: any entry first, then a reordering of the rest
Perms(s) ==
    IF s = <<>> THEN {<<>>}
    ELSE UNION {{<<s[i]>> \o q : q \in Perms(RemoveAt(s, i))} : i \in DOMAIN s}

\* Counter's lookup: the count of a key, 0 for a missing key
CountOf(cov, e) == IF e \in DOMAIN cov THEN cov[e] ELSE 0

\* the counter of the certifier after the loop over the list
CoverageCounter(ids) == CovLoop(ids, S, EmptyCounter).val

\* no set line of the instance names an element twice
NoRepeats == \A j \in DOMAIN S : \A a, b \in DOMAIN S[j] : S[j][a] = S[j][b] => a = b

IsScenario ==
    /\ num_E = Scenario.num_E /\ num_S = Scenario.num_S /\ P = Scenario.P
    /\ r = Scenario.r /\ c = Scenario.c /\ S = Scenario.S

Assigned(f) == f \in DOMAIN flags

Ended == pc \in {"done", "exit", "raised"}

CostOK == verify_costs(Sets, Costs, c).ret
CoverOK == verify_covering_requirement(r, Sets, S, P).ret
MinOK == verify_minimal(r, Sets, S, P).ret

---------------------------------------------------------------------------
\* C1: on a solution that parses and lists sets of the instance the
\* certifier runs the cost check, then the covering check, then the
\* minimality check, stops at the first failure and prints exactly one
\* verdict: "incorrect cost" iff the cost check fails, "infeasible" iff cost
\* passed and covering failed, "not minimal" iff cost and covering passed
\* and minimality failed, "everything is correct!" iff all three pass.
C1_FirstFailureVerdict ==
    /\ (pc = "raised" => ~ValidIds(Sets))
    /\ (Assigned("covering_flag") => Assigned("cost_flag") /\ flags["cost_flag"])
    /\ (Assigned("minimal_flag") => Assigned("covering_flag") /\ flags["covering_flag"])
    /\ (pc \notin {"done", "exit"} => out = <<>>)
    /\ (pc = "done" =>
          LET cost_ok == CostOK
              cover_ok == CoverOK
              min_ok == MinOK
          IN  /\ Len(out) = 1
              /\ (out = <<"incorrect cost">>) <=> ~cost_ok
              /\ (out = <<"infeasible">>) <=> (cost_ok /\ ~cover_ok)
              /\ (out = <<"not minimal">>) <=> (cost_ok /\ cover_ok /\ ~min_ok)
              /\ (out = <<"everything is correct!">>) <=> (cost_ok /\ cover_ok /\ min_ok))

C1_Witness ==
    pc = "done" /\ out = <<"incorrect cost">> /\ ~CoverOK /\ Sets # <<>>

\* C2: for valid ids the cost check passes iff the declared cost equals the
\* sum of cost[j] over the entries of the list, whatever the declared cost.
C2_CostCheckIffTrueSum ==
    /\ (Assigned("cost_flag") => (flags["cost_flag"] <=> (Costs = TrueCost(Sets))))
    /\ (pc = "verify_costs" /\ ValidIds(Sets) =>
          \A d \in 0..(TrueCost(Sets) + MaxSolLen) :
              /\ verify_costs(Sets, d, c).exc = ""
              /\ verify_costs(Sets, d, c).ret <=> (d = TrueCost(Sets)))

C2_Witness ==
    /\ Assigned("cost_flag") /\ ~flags["cost_flag"]
    /\ Len(Sets) = 2 /\ Costs = TrueCost(Sets) + 1

\* C3: the covering check passes iff the number of elements of 1..num_E whose
\* coverage count (number of selected sets containing the element) is at
\* least their requirement reaches the threshold.
C3_CoveringIffSatisfiedCount ==
    Assigned("covering_flag") =>
        (flags["covering_flag"] <=> (Cardinality(SatisfiedElements(Sets)) >= P))

\* C4: the minimality check fails iff some single entry can be removed with
\* the covering check still passing; in the scenario <<1, 2>> is not minimal
\* and <<2>> is.
C4_MinimalIffEveryRemovalBreaks ==
    /\ (Assigned("minimal_flag") =>
          (~flags["minimal_flag"] <=>
              \E n \in DOMAIN Sets :
                  verify_covering_requirement(r, RemoveAt(Sets, n), S, P).ret))
    /\ (Assigned("minimal_flag") /\ IsScenario /\ Sets = <<1, 2>> => ~flags["minimal_flag"])
    /\ (Assigned("minimal_flag") /\ IsScenario /\ Sets = <<2>> => flags["minimal_flag"])
    /\ (IsScenario /\ Sets = <<2>> /\ Costs = 3 /\ pc = "done"
          => out = <<"everything is correct!">>)

C4_Witness ==
    Assigned("minimal_flag") /\ IsScenario /\ Sets = <<1, 2>> /\ ~flags["minimal_flag"]

\* C5: a solution naming an id that is no set of the instance ends in
\* "wrong format", with no verdict and no unhandled failure.
C5_InvalidIdIsFormatError ==
    Ended /\ ~ValidIds(Sets) => pc # "raised" /\ out = <<"wrong format">>

\* C6: an optimal solution written by the solver (instances without repeated
\* elements in a set line) is reported "everything is correct!".
C6_OptimalIsCorrect ==
    status = "optimal" /\ NoRepeats /\ pc = "done" => out = <<"everything is correct!">>

\* C7: a Correct verdict does not certify optimality: in the scenario the
\* solution <<1>> with declared cost 5 is reported correct although <<2>>
\* passes the covering check at cost 3.
C7_CorrectNotOptimal ==
    IsScenario /\ Sets = <<1>> /\ Costs = 5 /\ pc = "done" =>
        /\ out = <<"everything is correct!">>
        /\ \E ids \in SeqsUpTo(1..num_S, MaxSolLen) :
              /\ verify_covering_requirement(r, ids, S, P).ret
              /\ TrueCost(ids) < TrueCost(Sets)

C7_Witness ==
    /\ IsScenario /\ Sets = <<1>> /\ Costs = 5 /\ pc = "done"
    /\ verify_covering_requirement(r, <<2>>, S, P).ret /\ TrueCost(<<2>>) = 3

\* what main prints for a list and a declared cost
Verdict(ids, cost) ==
    LET cost_flag == verify_costs(ids, cost, c)
    IN
    IF cost_flag.exc # "" THEN <<>>
    ELSE IF ~cost_flag.ret THEN <<"incorrect cost">>
    ELSE IF ~verify_covering_requirement(r, ids, S, P).ret THEN <<"infeasible">>
    ELSE IF ~verify_minimal(r, ids, S, P).ret THEN <<"not minimal">>
    ELSE <<"everything is correct!">>

C9_CoverageMonotone ==
    Assigned("covering_flag") /\ ~Assigned("minimal_flag") =>
        LET cov == CoverageCounter(Sets)
        IN  /\ \A j \in 1..num_S :
                  LET appended == CoverageCounter(Append(Sets, j))
                      prepended == CoverageCounter(<<j>> \o Sets)
                  IN  \A e \in 1..num_E :
                          /\ CountOf(appended, e) >= CountOf(cov, e)
                          /\ CountOf(prepended, e) >= CountOf(cov, e)
            /\ \A n \in DOMAIN Sets :
                  LET removed == CoverageCounter(RemoveAt(Sets, n))
                  IN  \A e \in 1..num_E : CountOf(removed, e) <= CountOf(cov, e)
            /\ (flags["covering_flag"] =>
                  \A more \in {m \in SeqsUpTo(1..num_S, 2) : m # <<>>} :
                      verify_covering_requirement(r, Sets \o more, S, P).ret)

C9_Witness ==
    /\ Assigned("covering_flag") /\ ~Assigned("minimal_flag") /\ flags["covering_flag"]
    /\ \E j \in 1..num_S : \E e \in 1..num_E :
          /\ CountOf(CoverageCounter(Append(Sets, j)), e) > CountOf(CoverageCounter(Sets), e)
          /\ CountOf(CoverageCounter(Sets), e) >= r[e]

\* C10: the solution extracted from any 0/1 assignment that satisfies the
\* model's constraints passes the certifier's cost check and covering check.
C10_ModelSound ==
    status # "not solved" /\ Constraints(x, y) =>
        /\ pc \notin {"exit", "raised"}
        /\ (Assigned("cost_flag") => flags["cost_flag"])
        /\ (Assigned("covering_flag") => flags["covering_flag"])
        /\ (pc = "done" => out \in {<<"not minimal">>, <<"everything is correct!">>})

C10_Witness ==
    /\ status = "timeout" /\ Constraints(x, y)
    /\ Assigned("covering_flag") /\ flags["covering_flag"]
    /\ \E e \in 1..num_E : y[e] = 0 /\ EntriesContaining(Sets, e) >= r[e]

===========================================================================
